---- MODULE Spec2Model ----
(***************************************************************************)
(* Craigslist keyword watcher (src/main.py): the scan pass run_once, the   *)
(* seen-file store (load_seen / save_seen), the keyword matcher, the body  *)
(* extractor and the notifier send_alert, as a state machine.              *)
(*                                                                         *)
(* Strings are modelled by what the code does with them:                   *)
(*   - a listing identifier (a digit string such as "7812345678") is the   *)
(*     natural number it spells; sorted() on the one-digit identifiers of  *)
(*     the model is the numeric order;                                     *)
(*   - text (keywords, post bodies, ALERT_TO) is a sequence of characters. *)
(* The seen-file is a JSON document: missing, unparsable, a non-array      *)
(* value, or an array of JSON strings and numbers.                         *)
(***************************************************************************)
EXTENDS Integers, Sequences, FiniteSets, TLC

\* ------------------------------------------------------------------ bounds
MaxId == 2
MaxPerPage == 1
MaxPages == 2
MaxPasses == 2

Procs == {1, 2}
Ids == 1..MaxId
Dirs == {"gms", "vgm"}

VARIABLES
    cfg,               \* run_once's arguments and the environment (ALERT_TO)
    budget,            \* per process: how many passes the host starts in it
    seenFile,          \* the seen-file on disk
    notifierCalls,     \* per identifier: how often send_alert was invoked, ever
    passes,            \* per process: passes started
    pc,                \* per process: position in main / run_once
    seen,              \* run_once local: the in-memory Seen-Set
    all_listings,      \* run_once local
    listings_unique,   \* run_once local
    page,              \* run_once local: the page loop's variable
    idx,               \* run_once local: position of the listing loop (1-based)
    total_found, already_seen, processed_new, matched, alerts_sent,
    trace,             \* per process: the pass's I/O so far (reads, fetches, sleeps, mail, writes, prints)
    prev               \* per process: whether the previous pass was terminated, and the in-memory Seen-Set lost with it

vars == <<cfg, budget, seenFile, notifierCalls, passes, pc, seen, all_listings,
          listings_unique, page, idx, total_found, already_seen, processed_new,
          matched, alerts_sent, trace, prev>>

counters == <<total_found, already_seen, processed_new, matched, alerts_sent>>

\* ------------------------------------------------------------ text helpers
IsSpace(c) == c = " "

RECURSIVE LStrip(_)
LStrip(s) == IF s # <<>> /\ IsSpace(Head(s)) THEN LStrip(Tail(s)) ELSE s

RECURSIVE RStrip(_)
RStrip(s) ==
    IF s # <<>> /\ IsSpace(s[Len(s)]) THEN RStrip(SubSeq(s, 1, Len(s) - 1)) ELSE s

\* str.strip()
Strip(s) == RStrip(LStrip(s))

\* re.IGNORECASE on the characters of the model
Lower(c) == IF c = "A" THEN "a" ELSE IF c = "B" THEN "b" ELSE c

\* the literal k occurs in text at position i
OccursAt(k, text, i) ==
    /\ i + Len(k) - 1 <= Len(text)
    /\ \A j \in 1..Len(k) : Lower(text[i + j - 1]) = Lower(k[j])

\* text.replace("QR Code Link to This Post", ""): the phrase is the character "Q"
RECURSIVE RemoveBoilerplate(_)
RemoveBoilerplate(s) ==
    IF s = <<>> THEN <<>>
    ELSE IF Head(s) = "Q" THEN RemoveBoilerplate(Tail(s))
    ELSE <<Head(s)>> \o RemoveBoilerplate(Tail(s))

\* ------------------------------------------------------------ HTTP helper
\* A response: it timed out, or it has a status and a body; a body may hold the
\* block-page marker.
Raised == [raised |-> TRUE, text |-> <<>>]
Returned(text) == [raised |-> FALSE, text |-> text]

http_get_text(resp) ==
    IF resp.timeout THEN Raised
    ELSE IF resp.status < 200 \/ resp.status >= 400 THEN Raised
    ELSE IF resp.blocked THEN Raised
    ELSE Returned(resp.body)

\* ----------------------------------------------------- search-result pages
\* A link https://<region>.craigslist.org/<dir>/d/x/<post>.html; post 1 is listed
\* under two category paths (two links, one identifier), the others under one.
Links == {l \in [dir : Dirs, post : Ids] : l.dir = "gms" \/ l.post = 1}

listing_id_from_url(link) == link.post

Listing(link) == [id |-> listing_id_from_url(link), link |-> link]

\* What parse_search_results returns: listings with unique links, in page order.
ParsedPages ==
    {s \in UNION {[1..n -> {Listing(l) : l \in Links}] : n \in 0..MaxPerPage} :
        \A i, j \in 1..Len(s) : i # j => s[i].link # s[j].link}

SearchResponses ==
    {[timeout |-> TRUE, status |-> 0, blocked |-> FALSE, body |-> <<>>],
     [timeout |-> FALSE, status |-> 503, blocked |-> FALSE, body |-> <<>>],
     [timeout |-> FALSE, status |-> 200, blocked |-> TRUE, body |-> <<>>]}
    \cup {[timeout |-> FALSE, status |-> 200, blocked |-> FALSE, body |-> s] : s \in ParsedPages}

\* No merge: listings_unique = all_listings.
DedupeByIdNone(all) == all

\* The other merge of a keyed collection: a later listing replaces an earlier
\* one of the same id (by_id[lst.id] = lst).
RECURSIVE DedupeByIdLastWins(_)
DedupeByIdLastWins(all) ==
    IF all = <<>> THEN <<>>
    ELSE LET init == DedupeByIdLastWins(SubSeq(all, 1, Len(all) - 1))
             last == all[Len(all)]
         IN IF \E k \in 1..Len(init) : init[k].id = last.id
            THEN [k \in 1..Len(init) |-> IF init[k].id = last.id THEN last ELSE init[k]]
            ELSE Append(init, last)

\* Dedupe across pages by listing id: by_id.setdefault keeps the first listing of
\* each id, and a dict keeps insertion order.
RECURSIVE DedupeById(_)
DedupeById(all) ==
    IF all = <<>> THEN <<>>
    ELSE LET init == DedupeById(SubSeq(all, 1, Len(all) - 1))
             last == all[Len(all)]
         IN IF \E k \in 1..Len(init) : init[k].id = last.id
            THEN init
            ELSE Append(init, last)

\* ------------------------------------------------ post pages and keywords
\* A post page: whether it has <section id="postingbody">, and that section's text.
PostPages ==
    {[section |-> FALSE, text |-> <<>>],
     [section |-> TRUE, text |-> <<>>],
     [section |-> TRUE, text |-> <<"Q">>],
     [section |-> TRUE, text |-> <<"Q", " ", "A">>],
     [section |-> TRUE, text |-> <<"b", "a">>],
     [section |-> TRUE, text |-> <<"b">>]}

DetailResponses ==
    {[timeout |-> TRUE, status |-> 0, blocked |-> FALSE, body |-> <<>>],
     [timeout |-> FALSE, status |-> 404, blocked |-> FALSE, body |-> <<>>],
     [timeout |-> FALSE, status |-> 200, blocked |-> TRUE, body |-> <<>>]}
    \cup {[timeout |-> FALSE, status |-> 200, blocked |-> FALSE, body |-> h] : h \in PostPages}

extract_post_text(html) ==
    IF ~html.section THEN <<>>
    ELSE Strip(RemoveBoilerplate(Strip(html.text)))

\* cleaned = [k.strip() for k in keywords if k.strip()]
compile_keyword_regex(keywords) ==
    SelectSeq([k \in 1..Len(keywords) |-> Strip(keywords[k])], LAMBDA k : k # <<>>)

\* A search that takes any text there is for a match.
kw_search_any_text(cleaned, text) == text # <<>>

\* A search with the empty alternation "()" in place of a^: it matches any text.
kw_search_empty_alternation(cleaned, text) ==
    \/ cleaned = <<>>
    \/ \E i \in 1..Len(text) : \E n \in 1..Len(cleaned) : OccursAt(cleaned[n], text, i)

\* kw_re.search(post_text): with no usable keyword the pattern a^ matches nothing.
kw_search(cleaned, text) ==
    /\ cleaned # <<>>
    /\ \E i \in 1..Len(text) : \E n \in 1..Len(cleaned) : OccursAt(cleaned[n], text, i)

\* ------------------------------------------------------------- seen-file
JsonStr(i) == [t |-> "str", v |-> i]
JsonNum(i) == [t |-> "num", v |-> i]

\* str(x) of a JSON array element: the digits either way
PyStr(x) == x.v

MissingFile == [kind |-> "missing", items |-> <<>>]

RECURSIVE SortedSeq(_)
SortedSeq(S) ==
    IF S = {} THEN <<>>
    ELSE LET m == CHOOSE x \in S : \A y \in S : x <= y
         IN <<m>> \o SortedSeq(S \ {m})

load_seen_forgetful(file) == {}
\* load_seen without the isinstance(data, list) test: set(map(str, data)) of a
\* JSON string is its characters, of a JSON object its keys.
load_seen_any_iterable(file) ==
    IF file.kind \in {"missing", "invalid"} THEN {}
    ELSE {PyStr(file.items[k]) : k \in 1..Len(file.items)}
load_seen(file) ==
    IF file.kind = "missing" THEN {}
    ELSE IF file.kind = "invalid" THEN {}
    ELSE IF file.kind = "array" THEN {PyStr(file.items[k]) : k \in 1..Len(file.items)}
    ELSE {}

\* save_seen writing the text of the list, json.dumps(str(sorted(seen))): the
\* file then holds a JSON string.
save_seen_as_text(s) ==
    LET sorted == SortedSeq(s)
    IN [kind |-> "string", items |-> [k \in 1..Len(sorted) |-> JsonStr(sorted[k])]]

save_seen(s) ==
    LET sorted == SortedSeq(s)
    IN [kind |-> "array", items |-> [k \in 1..Len(sorted) |-> JsonStr(sorted[k])]]

\* ---------------------------------------------------------------- notifier
\* The local mail transport: whether sendmail/ssmtp is on PATH, and its exit status.
Transports == [found : BOOLEAN, returncode : {0, 1}]

Delivered == [raised |-> FALSE, why |-> "sent"]
Failed(why) == [raised |-> TRUE, why |-> why]

send_alert(alert_to, transport) ==
    IF Strip(alert_to) = <<>> THEN Failed("no_recipient")
    ELSE IF ~transport.found THEN Failed("no_transport")
    ELSE IF transport.returncode # 0 THEN Failed("exit_status")
    ELSE Delivered

\* ------------------------------------------------------------------- trace
Event(op, id, ok, arg) == [op |-> op, id |-> id, ok |-> ok, arg |-> arg]
\* A turn that goes on without pausing.
SleepSkipped == Event("skip", 0, TRUE, "")
Sleep == Event("sleep", 0, TRUE, "")

\* ----------------------------------------------------------------- config
KeywordLists == {<< <<"a">>, <<" ">> >>}
Recipients == {<<" ">>, <<"u">>}

\* --page-size (default 120) and --query (default None)
DefaultPageSize == 120
NoQuery == <<>>

Configs ==
    [dry_run : BOOLEAN, pages : 1..MaxPages, keywords : KeywordLists, alert_to : Recipients,
     page_size : {DefaultPageSize}, query : {NoQuery}]

ProcInitFrom(configs, hosted, files) ==
    /\ budget = hosted
    /\ cfg \in configs
    /\ seenFile \in files
    /\ notifierCalls = [i \in Ids |-> 0]
    /\ passes = [p \in Procs |-> 0]
    /\ pc = [p \in Procs |-> "idle"]
    /\ seen = [p \in Procs |-> {}]
    /\ all_listings = [p \in Procs |-> <<>>]
    /\ listings_unique = [p \in Procs |-> <<>>]
    /\ page = [p \in Procs |-> 0]
    /\ idx = [p \in Procs |-> 1]
    /\ total_found = [p \in Procs |-> 0]
    /\ already_seen = [p \in Procs |-> 0]
    /\ processed_new = [p \in Procs |-> 0]
    /\ matched = [p \in Procs |-> 0]
    /\ alerts_sent = [p \in Procs |-> 0]
    /\ trace = [p \in Procs |-> <<>>]
    /\ prev = [p \in Procs |-> [killed |-> FALSE, seen |-> {}]]

ProcInit(configs, hosted) == ProcInitFrom(configs, hosted, {MissingFile})

Init == ProcInit(Configs, [p \in Procs |-> IF p = 1 THEN MaxPasses ELSE 0])

\* ------------------------------------------------------------------ main
PassOver == {"idle", "returned", "raised", "killed"}

\* range(max(1, pages))
PageCount(pages) == IF pages > 1 THEN pages ELSE 1

\* main calls run_once (again, in --loop mode, or when the host runs the script
\* again); run_once up to the page loop.
StartPass(p) ==
    /\ pc[p] \in PassOver
    /\ passes[p] < budget[p]
    /\ passes' = [passes EXCEPT ![p] = @ + 1]
    /\ prev' = [prev EXCEPT ![p] = IF pc[p] = "killed"
                                   THEN [killed |-> TRUE, seen |-> seen[p]]
                                   ELSE [killed |-> FALSE, seen |-> {}]]
    /\ seen' = [seen EXCEPT ![p] = load_seen(seenFile)]
    /\ total_found' = [total_found EXCEPT ![p] = 0]
    /\ already_seen' = [already_seen EXCEPT ![p] = 0]
    /\ processed_new' = [processed_new EXCEPT ![p] = 0]
    /\ matched' = [matched EXCEPT ![p] = 0]
    /\ alerts_sent' = [alerts_sent EXCEPT ![p] = 0]
    /\ all_listings' = [all_listings EXCEPT ![p] = <<>>]
    /\ listings_unique' = [listings_unique EXCEPT ![p] = <<>>]
    /\ page' = [page EXCEPT ![p] = 0]
    /\ idx' = [idx EXCEPT ![p] = 1]
    /\ trace' = [trace EXCEPT ![p] = <<Event("load", 0, TRUE, seenFile)>>]
    /\ pc' = [pc EXCEPT ![p] = "fetch_page"]
    /\ UNCHANGED <<cfg, budget, seenFile, notifierCalls>>


\* The query parameters of the request for one search page: sort always, query
\* and s only when they are truthy. An optional parameter is <<value>> when it
\* is sent and << >> when it is not.
search_params_always_offset(pg, page_size, query) ==
    [sort |-> "date",
     query |-> IF query # <<>> THEN <<query>> ELSE <<>>,
     s |-> <<pg * page_size>>]
search_params(pg, page_size, query) ==
    LET offset == pg * page_size
    IN [sort |-> "date",
        query |-> IF query # <<>> THEN <<query>> ELSE <<>>,
        s |-> IF offset # 0 THEN <<offset>> ELSE <<>>]

\* Fetching-Pages: one turn of the page loop (fetch, parse, extend, sleep).
\* An exception of http_get_text is not caught: it leaves run_once.
AfterSearchFailureSwallowed == "dedupe"
AfterSearchFailure == "raised"

FetchPage(p) ==
    /\ pc[p] = "fetch_page"
    /\ page[p] < PageCount(cfg.pages)
    /\ \E resp \in SearchResponses :
        LET r == http_get_text(resp)
        IN IF r.raised
           THEN /\ pc' = [pc EXCEPT ![p] = AfterSearchFailure]
                /\ trace' = [trace EXCEPT ![p] = Append(@, Event("search", 0, FALSE, search_params(page[p], cfg.page_size, cfg.query)))]
                /\ UNCHANGED <<all_listings, page>>
           ELSE /\ all_listings' = [all_listings EXCEPT ![p] = @ \o r.text]
                /\ trace' = [trace EXCEPT ![p] =
                               @ \o <<Event("search", 0, TRUE,
                                            search_params(page[p], cfg.page_size, cfg.query)), Sleep>>]
                /\ page' = [page EXCEPT ![p] = @ + 1]
                /\ pc' = [pc EXCEPT ![p] =
                            IF page[p] + 1 < PageCount(cfg.pages) THEN "fetch_page" ELSE "dedupe"]
    /\ UNCHANGED <<cfg, budget, seenFile, notifierCalls, passes, seen, listings_unique,
                   idx, counters, prev>>

\* Deduping: by_id, listings_unique, total_found.
Dedupe(p) ==
    /\ pc[p] = "dedupe"
    /\ listings_unique' = [listings_unique EXCEPT ![p] = DedupeById(all_listings[p])]
    /\ total_found' = [total_found EXCEPT ![p] = Len(DedupeById(all_listings[p]))]
    /\ idx' = [idx EXCEPT ![p] = 1]
    /\ pc' = [pc EXCEPT ![p] = "loop"]
    /\ UNCHANGED <<cfg, budget, seenFile, notifierCalls, passes, seen, all_listings, page,
                   already_seen, processed_new, matched, alerts_sent, trace, prev>>

InLoop(p) == idx[p] <= Len(listings_unique[p])
Current(p) == listings_unique[p][idx[p]]

\* if listing.id in seen
IsSeenNever(id, s) == FALSE
IsSeen(id, s) == id \in s

\* seen.add(listing.id)
MarkSeenSkipped(s, id) == s
MarkSeen(s, id) == s \cup {id}

\* Per-Listing-Loop, head of one turn: skip a seen listing, or count and mark a
\* new one before its post page is fetched. run_once does not read all_listings
\* after the dedupe: the model drops it at the first step that follows.
LoopHead(p) ==
    /\ pc[p] = "loop"
    /\ InLoop(p)
    /\ IF IsSeen(Current(p).id, seen[p])
       THEN /\ already_seen' = [already_seen EXCEPT ![p] = @ + 1]
            /\ idx' = [idx EXCEPT ![p] = @ + 1]
            /\ UNCHANGED <<processed_new, seen, pc>>
       ELSE /\ processed_new' = [processed_new EXCEPT ![p] = @ + 1]
            /\ seen' = [seen EXCEPT ![p] = MarkSeen(@, Current(p).id)]
            /\ pc' = [pc EXCEPT ![p] = "fetch_post"]
            /\ UNCHANGED <<already_seen, idx>>
    /\ all_listings' = [all_listings EXCEPT ![p] = <<>>]
    /\ UNCHANGED <<cfg, budget, seenFile, notifierCalls, passes,
                   listings_unique, page, total_found, matched, alerts_sent, trace, prev>>

\* except Exception: print [skip], sleep, continue
AfterPostFailureRaise == "raised"
AfterPostFailure == "loop"

\* if dry_run: print ... else: send_alert(...)
DispatchesAlways(dry_run) == TRUE
Dispatches(dry_run) == ~dry_run

\* The post page of the current listing: fetch, extract, match; a dry-run match
\* is printed, a live match goes on to send_alert.
FetchPost(p) ==
    /\ pc[p] = "fetch_post"
    /\ \E resp \in DetailResponses :
        LET r == http_get_text(resp)
            id == Current(p).id
            post_text == extract_post_text(r.text)
            m == kw_search(compile_keyword_regex(cfg.keywords), post_text)
        IN IF r.raised
           THEN /\ trace' = [trace EXCEPT ![p] =
                               IF AfterPostFailure = "loop"
                               THEN @ \o <<Event("detail", id, FALSE, <<>>), Sleep>>
                               ELSE Append(@, Event("detail", id, FALSE, <<>>))]
                /\ pc' = [pc EXCEPT ![p] = AfterPostFailure]
                /\ idx' = [idx EXCEPT ![p] = IF AfterPostFailure = "loop" THEN @ + 1 ELSE @]
                /\ UNCHANGED matched
           ELSE IF post_text = <<>>
           THEN /\ trace' = [trace EXCEPT ![p] = @ \o <<Event("detail", id, TRUE, post_text), Sleep>>]
                /\ pc' = [pc EXCEPT ![p] = "loop"]
                /\ idx' = [idx EXCEPT ![p] = @ + 1]
                /\ UNCHANGED matched
           ELSE IF ~m
           THEN /\ trace' = [trace EXCEPT ![p] = @ \o <<Event("detail", id, TRUE, post_text), Sleep>>]
                /\ pc' = [pc EXCEPT ![p] = "loop"]
                /\ idx' = [idx EXCEPT ![p] = @ + 1]
                /\ UNCHANGED matched
           ELSE IF Dispatches(cfg.dry_run)
           THEN /\ trace' = [trace EXCEPT ![p] = Append(@, Event("detail", id, TRUE, post_text))]
                /\ matched' = [matched EXCEPT ![p] = @ + 1]
                /\ pc' = [pc EXCEPT ![p] = "send_alert"]
                /\ UNCHANGED idx
           ELSE /\ trace' = [trace EXCEPT ![p] =
                               @ \o <<Event("detail", id, TRUE, post_text),
                                      Event("print", id, TRUE, "dry-run"), Sleep>>]
                /\ matched' = [matched EXCEPT ![p] = @ + 1]
                /\ pc' = [pc EXCEPT ![p] = "loop"]
                /\ idx' = [idx EXCEPT ![p] = @ + 1]
    /\ UNCHANGED <<cfg, budget, seenFile, notifierCalls, passes, seen, all_listings,
                   listings_unique, page, total_found, already_seen, processed_new,
                   alerts_sent, prev>>

\* send_alert for the current listing. It is called outside any try: when it
\* raises, the exception leaves run_once; when it returns, the alert is printed
\* and counted and the turn ends with the sleep.
SendAlert(p) ==
    /\ pc[p] = "send_alert"
    /\ \E transport \in Transports :
        LET r == send_alert(cfg.alert_to, transport)
            id == Current(p).id
        IN /\ notifierCalls' = [notifierCalls EXCEPT ![id] = @ + 1]
           /\ IF r.raised
              THEN /\ trace' = [trace EXCEPT ![p] = Append(@, Event("notify", id, FALSE, r.why))]
                   /\ pc' = [pc EXCEPT ![p] = "raised"]
                   /\ UNCHANGED <<alerts_sent, idx>>
              ELSE /\ trace' = [trace EXCEPT ![p] =
                                  @ \o <<Event("notify", id, TRUE, r.why),
                                         Event("print", id, TRUE, "alert"), Sleep>>]
                   /\ alerts_sent' = [alerts_sent EXCEPT ![p] = @ + 1]
                   /\ idx' = [idx EXCEPT ![p] = @ + 1]
                   /\ pc' = [pc EXCEPT ![p] = "loop"]
    /\ UNCHANGED <<cfg, budget, seenFile, passes, seen, all_listings, listings_unique,
                   page, total_found, already_seen, processed_new, matched, prev>>

\* Persisting: after the listing loop, save_seen(seen_file, seen).
SaveSeen(p) ==
    /\ pc[p] = "loop"
    /\ ~InLoop(p)
    /\ seenFile' = save_seen(seen[p])
    /\ trace' = [trace EXCEPT ![p] = Append(@, Event("save", 0, TRUE, save_seen(seen[p])))]
    /\ pc' = [pc EXCEPT ![p] = "summary"]
    /\ all_listings' = [all_listings EXCEPT ![p] = <<>>]
    /\ UNCHANGED <<cfg, budget, notifierCalls, passes, seen, listings_unique,
                   page, idx, counters, prev>>

\* The summary line printed at the end of run_once.
summary_line(new, sent, dry_run) ==
    IF new = 0 THEN "no-new-posts"
    ELSE IF sent = 0
    THEN IF dry_run THEN "dry-run:scanned-no-matches" ELSE "scanned-no-matches"
    ELSE IF dry_run THEN "dry-run:scanned-with-matches" ELSE "scanned-with-matches"

\* What the if / elif / else chain prints: one line.
summary_prints_fallthrough(new, sent, dry_run) ==
    (IF new = 0 THEN <<Event("summary", 0, TRUE, "no-new-posts")>> ELSE <<>>)
    \o (IF sent = 0
        THEN <<Event("summary", 0, TRUE,
                     IF dry_run THEN "dry-run:scanned-no-matches" ELSE "scanned-no-matches")>>
        ELSE <<Event("summary", 0, TRUE,
                     IF dry_run THEN "dry-run:scanned-with-matches" ELSE "scanned-with-matches")>>)
summary_prints(new, sent, dry_run) ==
    <<Event("summary", 0, TRUE, summary_line(new, sent, dry_run))>>

\* Summarizing, and return alerts_sent.
Summarize(p) ==
    /\ pc[p] = "summary"
    /\ trace' = [trace EXCEPT ![p] =
                    @ \o summary_prints(processed_new[p], alerts_sent[p], cfg.dry_run)]
    /\ pc' = [pc EXCEPT ![p] = "returned"]
    /\ UNCHANGED <<cfg, budget, seenFile, notifierCalls, passes, seen, all_listings,
                   listings_unique, page, idx, counters, prev>>

\* The process is terminated from outside in the middle of a pass: whatever
\* run_once holds in memory is gone.
Terminate(p) ==
    /\ pc[p] \notin PassOver
    /\ pc' = [pc EXCEPT ![p] = "killed"]
    /\ UNCHANGED <<cfg, budget, seenFile, notifierCalls, passes, seen, all_listings,
                   listings_unique, page, idx, counters, trace, prev>>

Next ==
    \E p \in Procs :
        \/ StartPass(p)
        \/ FetchPage(p)
        \/ Dedupe(p)
        \/ LoopHead(p)
        \/ FetchPost(p)
        \/ SendAlert(p)
        \/ SaveSeen(p)
        \/ Summarize(p)

\* One process, passes one after the other.
Spec == Init /\ [][Next]_vars

\* One process, which the host may terminate in the middle of a pass.
NextCrash == Next \/ \E p \in Procs : Terminate(p)
SpecCrash == Init /\ [][NextCrash]_vars

\* Two processes started against the same seen-file.
InitConc ==
    ProcInit({c \in Configs : c.pages = 1 /\ Strip(c.alert_to) # <<>>}, [p \in Procs |-> 1])
SpecConc == InitConc /\ [][Next]_vars

\* One process, one pass.
InitPass == ProcInit(Configs, [p \in Procs |-> IF p = 1 THEN 1 ELSE 0])
SpecPass == InitPass /\ [][Next]_vars

\* One pass per keyword list, the lists without a usable keyword included.
UnusableKeywordLists == {<<>>, << <<>>, <<" ", " ">> >>}
ConfigsKw ==
    {c \in [dry_run : BOOLEAN, pages : 1..MaxPages, keywords : KeywordLists \cup UnusableKeywordLists,
            alert_to : Recipients, page_size : {DefaultPageSize}, query : {NoQuery}] :
        c.pages = PageCount(0) /\ Strip(c.alert_to) # <<>>}
InitKw == ProcInit(ConfigsKw, [p \in Procs |-> IF p = 1 THEN 1 ELSE 0])
SpecKw == InitKw /\ [][Next]_vars

\* One pass per state of the seen-file: absent, not JSON, a JSON string, a JSON
\* object, an array of numbers.
SeenFiles ==
    {MissingFile, [kind |-> "invalid", items |-> <<>>]}
    \cup {[kind |-> k, items |-> <<JsonStr(i)>>] : k \in {"string", "object"}, i \in Ids}
    \cup {[kind |-> "array", items |-> <<JsonNum(i)>>] : i \in Ids}
InitFile ==
    ProcInitFrom({c \in Configs : Strip(c.alert_to) # <<>>},
                 [p \in Procs |-> IF p = 1 THEN 1 ELSE 0], SeenFiles)
SpecFile == InitFile /\ [][Next]_vars

\* One live pass per value of --pages (an int: zero and negative values parse),
\* of --page-size and of --query.
PageArgs == -1..MaxPages
PageSizeArgs == {0, DefaultPageSize}
QueryArgs == {NoQuery, <<"q">>}
ConfigsPages ==
    [dry_run : {FALSE}, pages : PageArgs, keywords : KeywordLists, alert_to : {<<"u">>},
     page_size : PageSizeArgs, query : QueryArgs]
InitPages == ProcInit(ConfigsPages, [p \in Procs |-> IF p = 1 THEN 1 ELSE 0])
SpecPages == InitPages /\ [][Next]_vars


\* =================================================================== claims
\* What a pass has done so far, read off its trace.
Started(p) == trace[p] # <<>>
FileAtStart(p) == trace[p][1].arg
LastEvent(p) == trace[p][Len(trace[p])]
EventsOf(p, ops) == {k \in DOMAIN trace[p] : trace[p][k].op \in ops}
FailedEvents(p, op) == {k \in EventsOf(p, {op}) : ~trace[p][k].ok}
SentEvents(p) == {k \in EventsOf(p, {"notify"}) : trace[p][k].ok}
IdsOf(p, ops) == {trace[p][k].id : k \in EventsOf(p, ops)}
UniqueIds(p) == {listings_unique[p][k].id : k \in DOMAIN listings_unique[p]}

\* A post text in which a keyword of the configuration occurs, letter case aside:
\* a keyword counts without the blanks around it and when something is left of it.
Core(k) == SelectSeq(k, LAMBDA c : c # " ")
HasKeyword(text) ==
    \E n \in DOMAIN cfg.keywords :
        /\ Core(cfg.keywords[n]) # <<>>
        /\ \E i \in DOMAIN text :
              /\ i + Len(Core(cfg.keywords[n])) - 1 <= Len(text)
              /\ \A j \in DOMAIN Core(cfg.keywords[n]) :
                    Lower(text[i + j - 1]) = Lower(Core(cfg.keywords[n])[j])
MatchEvents(p) == {k \in EventsOf(p, {"detail"}) : trace[p][k].ok /\ HasKeyword(trace[p][k].arg)}

\* The identifiers a seen-file holds.
FileIds(file) ==
    IF file.kind = "array" THEN {file.items[k].v : k \in DOMAIN file.items} ELSE {}

Saved(p) == pc[p] \in {"summary", "returned"}

\* C1: over all passes on the same seen-file, send_alert is invoked at most once
\* for any listing identifier, also when fetches or deliveries fail.
C1_AtMostOncePerListing == \A i \in Ids : notifierCalls[i] <= 1

\* C2: a delivery that fails with a non-zero exit status does not end the pass: the pass goes on without
\* retrying the alert, and the Seen-Set it persists holds the listing's identifier.
C2_DeliveryFailureNonFatal ==
    \A p \in Procs : \A k \in FailedEvents(p, "notify") :
        trace[p][k].arg = "exit_status" =>
        /\ pc[p] # "raised"
        /\ Cardinality({j \in EventsOf(p, {"notify"}) : trace[p][j].id = trace[p][k].id}) = 1
        /\ Saved(p) => trace[p][k].id \in FileIds(seenFile)


\* C3: a failed post-page fetch is local to its listing: the pass goes on (the
\* failure is followed by the sleep, never by the end of the pass), the listing
\* stays marked seen, every live match of the pass is handed to send_alert and
\* every delivery is counted, and the Seen-Set persisted at the end holds the
\* failed listing's identifier with those of the other processed listings.
C3_ListingLocalFaultIsolation ==
    \A p \in Procs : \A k \in FailedEvents(p, "detail") :
        /\ k < Len(trace[p]) /\ trace[p][k + 1] = Sleep
        /\ trace[p][k].id \in seen[p]
        /\ pc[p] = "raised" => LastEvent(p).op = "notify"
        /\ alerts_sent[p] = Cardinality(SentEvents(p))
        /\ \A j \in EventsOf(p, {"detail"}) :
              (j \in MatchEvents(p) /\ ~cfg.dry_run) =>
                  \/ j = Len(trace[p]) /\ pc[p] = "send_alert"
                  \/ j < Len(trace[p]) /\ trace[p][j + 1].op = "notify"
                                       /\ trace[p][j + 1].id = trace[p][j].id
        /\ Saved(p) => IdsOf(p, {"detail"}) \subseteq FileIds(seenFile)

\* C3 witness: a completed pass in which listing A matched and was delivered,
\* the fetch of a later listing B failed, and both are persisted.
C3_Witness ==
    \E p \in Procs : \E a \in SentEvents(p) : \E b \in FailedEvents(p, "detail") :
        /\ a < b
        /\ pc[p] = "returned"
        /\ alerts_sent[p] = 1
        /\ {trace[p][a].id, trace[p][b].id} \subseteq FileIds(seenFile)

\* C4: a failed fetch of a search-results page (the first or a later one) ends
\* the pass at once: it is the pass's last event, no post page was fetched, the
\* notifier was not invoked, nothing was saved or summarized, and the seen-file
\* is what it was when the pass began.
C4_SearchFailureAbortsPass ==
    \A p \in Procs : \A k \in FailedEvents(p, "search") :
        /\ k = Len(trace[p])
        /\ pc[p] = "raised"
        /\ EventsOf(p, {"detail", "notify", "print", "save", "summary"}) = {}
        /\ seenFile = FileAtStart(p)

\* C4 witness: the second search page of a pass fails, on a seen-file that an
\* earlier pass wrote.
C4_Witness ==
    \E p \in Procs :
        /\ pc[p] = "raised"
        /\ page[p] = 1
        /\ FailedEvents(p, "search") # {}
        /\ all_listings[p] # <<>>
        /\ FileIds(seenFile) # {}

\* C5: whenever a post page is about to be fetched its listing is already in the
\* in-memory Seen-Set, and no identifier the pass loaded, fetched or alerted leaves
\* the Seen-Set afterwards, whatever came of the fetch, the match or the alert.
C5_MarkSeenBeforeFetch ==
    \A p \in Procs :
        /\ pc[p] \in {"fetch_post", "send_alert"} => Current(p).id \in seen[p]
        /\ Started(p) =>
              FileIds(FileAtStart(p)) \cup IdsOf(p, {"detail", "notify"}) \subseteq seen[p]

\* C5 witness: a fetch is about to start for a marked listing, after an earlier
\* listing's fetch failed in the same pass.
C5_Witness ==
    \E p \in Procs :
        /\ pc[p] = "fetch_post"
        /\ FailedEvents(p, "detail") # {}
        /\ Current(p).id \in seen[p]
        /\ Current(p).id \notin FileIds(FileAtStart(p))

\* C6: when the process is terminated in the middle of a pass, the next pass
\* fetches no post page of a listing the terminated pass had marked seen.
C6_NoRefetchAfterTermination ==
    \A p \in Procs :
        (pc[p] = "fetch_post" /\ prev[p].killed) => Current(p).id \notin prev[p].seen

\* C7: two passes running at once on one seen-file: once both have saved, the
\* file holds every identifier either of them persisted, and no listing has a
\* notifier call in both passes.
C7_ConcurrentPassesSerialized ==
    /\ \A i \in Ids : ~(\A p \in Procs : i \in IdsOf(p, {"notify"}))
    /\ (\A p \in Procs : Saved(p)) =>
          \A p \in Procs : \A k \in EventsOf(p, {"save"}) :
              FileIds(trace[p][k].arg) \subseteq FileIds(seenFile)

\* C8: a listing whose identifier was in the Seen-Set loaded at the start of the
\* pass is skipped: no fetch, no match, no alert for it; between turns of the
\* listing loop already_seen counts the listings so skipped and processed_new
\* the others.
C8_SeenListingSkipped ==
    \A p \in Procs : Started(p) =>
        LET loaded == FileIds(FileAtStart(p))
            done == {k \in DOMAIN listings_unique[p] : k < idx[p]}
        IN /\ IdsOf(p, {"detail", "notify", "print"}) \cap loaded = {}
           /\ pc[p] \in {"loop", "summary", "returned"} =>
                 /\ already_seen[p] =
                        Cardinality({k \in done : listings_unique[p][k].id \in loaded})
                 /\ processed_new[p] =
                        Cardinality({k \in done : listings_unique[p][k].id \notin loaded})

\* C8 witness: a completed pass that skipped a loaded listing and processed a new one.
C8_Witness ==
    \E p \in Procs :
        /\ pc[p] = "returned"
        /\ already_seen[p] = 1
        /\ processed_new[p] = 1
        /\ UniqueIds(p) \cap FileIds(FileAtStart(p)) # {}

\* C9: a pass that got through the listing loop has saved, with or without
\* alerts: the seen-file then holds exactly the identifiers loaded at the start
\* and those of the unique listings of the pass; and the seen-file never holds
\* less than it held when the current pass began.
C9_SaveUnconditionalAndMonotone ==
    \A p \in Procs : Started(p) =>
        /\ FileIds(FileAtStart(p)) \subseteq FileIds(seenFile)
        /\ Saved(p) =>
              /\ EventsOf(p, {"save"}) # {}
              /\ seenFile.kind = "array"
              /\ FileIds(seenFile) = FileIds(FileAtStart(p)) \cup UniqueIds(p)

\* C9 witness: a second pass without any alert that added a new identifier to a
\* non-empty seen-file.
C9_Witness ==
    \E p \in Procs :
        /\ pc[p] = "returned"
        /\ alerts_sent[p] = 0
        /\ FileIds(FileAtStart(p)) # {}
        /\ FileIds(FileAtStart(p)) # FileIds(seenFile)
        /\ UniqueIds(p) \cap FileIds(FileAtStart(p)) = {}

\* C10: a dry-run pass never invokes the notifier, sends 0 alerts and can fail
\* only on a search page; a missing recipient fails a pass only as the answer to
\* the live dispatch of a matched listing.
C10_DryRunNeverNotifies ==
    \A p \in Procs :
        /\ cfg.dry_run =>
              /\ EventsOf(p, {"notify"}) = {}
              /\ pc[p] # "send_alert"
              /\ alerts_sent[p] = 0
              /\ \A i \in Ids : notifierCalls[i] = 0
              /\ pc[p] = "raised" => LastEvent(p).op = "search"
        /\ (pc[p] = "raised" /\ Strip(cfg.alert_to) = <<>> /\ LastEvent(p).op # "search") =>
              /\ ~cfg.dry_run
              /\ LastEvent(p) = Event("notify", Current(p).id, FALSE, "no_recipient")
              /\ matched[p] >= 1
              /\ Len(trace[p]) - 1 \in MatchEvents(p)
              /\ trace[p][Len(trace[p]) - 1].id = Current(p).id

\* C10 witness: a dry-run pass without a recipient completes with a match.
C10_Witness ==
    \E p \in Procs :
        /\ cfg.dry_run
        /\ Strip(cfg.alert_to) = <<>>
        /\ pc[p] = "returned"
        /\ matched[p] >= 1
        /\ alerts_sent[p] = 0


\* ------------------------------------------------------------ C11 .. C20
Summaries(p) == EventsOf(p, {"summary"})
Ended(p) == pc[p] \in {"returned", "raised"}

\* C11 (as claimed): every pass that has ended, however it ended, has emitted
\* exactly one summary.
C11_ExactlyOneSummaryAlways ==
    \A p \in Procs : Ended(p) => Cardinality(Summaries(p)) = 1

\* C11 (amended): a pass never emits more than one summary; a pass from which
\* run_once returned has emitted exactly one, as its last output after the
\* save; a pass that an exception ended, or that has not returned yet, none.
C11_OneSummaryWhenReturned ==
    \A p \in Procs :
        /\ Cardinality(Summaries(p)) <= 1
        /\ pc[p] = "returned" =>
              /\ Summaries(p) = {Len(trace[p])}
              /\ trace[p][Len(trace[p]) - 1].op = "save"
        /\ pc[p] # "returned" => Summaries(p) = {}

\* C11 witness: a pass with a failed post fetch and no new match returned with
\* its one summary.
C11_Witness ==
    \E p \in Procs :
        /\ pc[p] = "returned"
        /\ FailedEvents(p, "detail") # {}
        /\ Cardinality(Summaries(p)) = 1
        /\ processed_new[p] >= 1
        /\ alerts_sent[p] = 0


\* C12: the summary of a completed pass names the outcome: no-new-posts exactly
\* when processed_new = 0, scanned-with-matches exactly when a new listing
\* matched, scanned-no-matches exactly when new listings were scanned and none
\* matched; a scanned pass gets the dry-run variant exactly in dry-run mode.
C12_SummaryCategory ==
    \A p \in Procs : \A k \in Summaries(p) :
        LET line == trace[p][k].arg
            any == MatchEvents(p) # {}
        IN /\ line = "no-new-posts" <=> processed_new[p] = 0
           /\ line \in {"scanned-with-matches", "dry-run:scanned-with-matches"}
                 <=> (processed_new[p] > 0 /\ any)
           /\ line \in {"scanned-no-matches", "dry-run:scanned-no-matches"}
                 <=> (processed_new[p] > 0 /\ ~any)
           /\ line \in {"dry-run:scanned-with-matches", "dry-run:scanned-no-matches"}
                 <=> (processed_new[p] > 0 /\ cfg.dry_run)


\* Index in the accumulated listings at which an id was first discovered.
FirstAt(all, id) ==
    CHOOSE k \in 1..Len(all) : all[k].id = id /\ \A j \in 1..(k - 1) : all[j].id # id

\* The merge is done and the loop over its result has not started.
Merged(p) == pc[p] = "loop" /\ idx[p] = 1

\* C13: the listings a pass processes are the listings accumulated over its
\* pages, one per id, each the first one discovered with that id, in order of
\* first discovery; and within a pass no id is fetched, matched or alerted twice.
C13_CrossPageDedupe ==
    \A p \in Procs :
        /\ Merged(p) =>
              LET all == all_listings[p]
                  uniq == listings_unique[p]
              IN /\ \A k \in 1..Len(all) : \E i \in 1..Len(uniq) : uniq[i].id = all[k].id
                 /\ \A i \in 1..Len(uniq) :
                       /\ \E k \in 1..Len(all) : all[k].id = uniq[i].id
                       /\ uniq[i] = all[FirstAt(all, uniq[i].id)]
                 /\ \A i, j \in 1..Len(uniq) :
                       i < j => FirstAt(all, uniq[i].id) < FirstAt(all, uniq[j].id)
                 /\ total_found[p] = Cardinality({all[k].id : k \in 1..Len(all)})
        /\ \A op \in {"detail", "notify", "print"} :
              \A j, k \in EventsOf(p, {op}) : j # k => trace[p][j].id # trace[p][k].id
        /\ \A k \in EventsOf(p, {"detail", "notify", "print"}) :
              \E i \in 1..Len(listings_unique[p]) : listings_unique[p][i].id = trace[p][k].id

\* Two pages listed the same post under two links; the first link was kept.
C13_Witness ==
    \E p \in Procs :
        /\ Merged(p)
        /\ Len(all_listings[p]) = 2
        /\ all_listings[p][1].id = all_listings[p][2].id
        /\ all_listings[p][1].link # all_listings[p][2].link
        /\ listings_unique[p] = <<all_listings[p][1]>>


\* No keyword of the list has a character other than a blank.
NoUsableKeyword == \A n \in DOMAIN cfg.keywords : \A i \in DOMAIN cfg.keywords[n] : IsSpace(cfg.keywords[n][i])

\* C14: with a keyword list that has no usable entry the compiled predicate
\* matches no text, the pass counts no match and sends or prints no alert, and
\* every listing it found is nevertheless marked seen and persisted.
C14_EmptyKeywordSafety ==
    NoUsableKeyword =>
        /\ \A h \in PostPages :
              ~kw_search(compile_keyword_regex(cfg.keywords), extract_post_text(h))
        /\ \A p \in Procs :
              /\ matched[p] = 0
              /\ alerts_sent[p] = 0
              /\ pc[p] # "send_alert"
              /\ EventsOf(p, {"notify", "print"}) = {}
              /\ IdsOf(p, {"detail"}) \subseteq seen[p]
              /\ Saved(p) => /\ UniqueIds(p) \subseteq FileIds(seenFile)
                             /\ processed_new[p] = Len(listings_unique[p])

\* C14 witness: a completed pass over a list of blank keywords that fetched a
\* post with text and saved its identifier.
C14_Witness ==
    \E p \in Procs :
        /\ NoUsableKeyword
        /\ cfg.keywords # <<>>
        /\ pc[p] = "returned"
        /\ \E k \in EventsOf(p, {"detail"}) :
              /\ trace[p][k].ok
              /\ trace[p][k].arg # <<>>
              /\ trace[p][k].id \in FileIds(seenFile)

\* C15: load_seen returns the empty set for a seen-file that is absent, is not
\* JSON or holds a JSON value other than an array; the pass goes on from the
\* load, skips nothing, and processes every listing it discovers.
C15_FailOpenLoad ==
    /\ \A f \in SeenFiles : f.kind # "array" => load_seen(f) = {}
    /\ \A p \in Procs : (Started(p) /\ FileAtStart(p).kind # "array") =>
          /\ Len(trace[p]) = 1 => (seen[p] = {} /\ pc[p] = "fetch_page")
          /\ seen[p] \subseteq UniqueIds(p)
          /\ already_seen[p] = 0
          /\ pc[p] \in {"loop", "summary", "returned"} =>
                IdsOf(p, {"detail"}) = {listings_unique[p][k].id : k \in 1..processed_new[p]}
          /\ Saved(p) => processed_new[p] = Len(listings_unique[p])

\* C15 witness: a completed pass that began with a JSON object in the seen-file
\* and fetched the listing whose identifier is a key of that object.
C15_Witness ==
    \E p \in Procs :
        /\ pc[p] = "returned"
        /\ FileAtStart(p).kind = "object"
        /\ \E k \in EventsOf(p, {"detail"}) :
              trace[p][k].id = FileAtStart(p).items[1].v


\* A pass starts from a pass that ran to its end.
StartsAfterCompletedPass(p) == pc[p] = "returned" /\ pc'[p] = "fetch_page"

\* C16: for every set S of identifiers save_seen writes an ordered,
\* duplicate-free array of strings from which load_seen returns exactly S; the
\* file a completed pass leaves loads as the Seen-Set it saved, and the Seen-Set
\* the next pass loads equals the one the completed pass before it saved.
C16_SeenRoundTrip ==
    /\ [](/\ \A S \in SUBSET Ids :
               LET file == save_seen(S)
               IN /\ file.kind = "array"
                  /\ \A k \in DOMAIN file.items : file.items[k].t = "str"
                  /\ \A j, k \in DOMAIN file.items : j < k => file.items[j].v < file.items[k].v
                  /\ load_seen(file) = S
          /\ \A p \in Procs : Saved(p) => load_seen(seenFile) = seen[p])
    /\ [][\A p \in Procs : StartsAfterCompletedPass(p) => seen'[p] = seen[p]]_vars

\* C16 witness: a second pass that has just loaded the two identifiers the
\* completed pass before it saved.
C16_Witness ==
    \E p \in Procs :
        /\ passes[p] = 2
        /\ Len(trace[p]) = 1
        /\ Cardinality(seen[p]) = 2
        /\ seen[p] = FileIds(FileAtStart(p))


\* The HTTP fetches and the pauses of a pass, as positions in its trace.
Fetches(p) == EventsOf(p, {"search", "detail"})
Pauses(p) == EventsOf(p, {"sleep"})

\* C17: in a pass exactly one pause lies between a fetch and the next fetch,
\* whatever came of the first (failed, empty body, no match, dry-run match,
\* alert sent); and once the turn of a fetch is over, one pause follows it.
C17_ThrottleOrdering ==
    \A p \in Procs :
        /\ \A j, k \in Fetches(p) :
              (j < k /\ ~\E f \in Fetches(p) : j < f /\ f < k) =>
                  Cardinality({s \in Pauses(p) : j < s /\ s < k}) = 1
        /\ (pc[p] \in {"fetch_page", "dedupe", "loop", "fetch_post", "summary", "returned"}
               /\ Fetches(p) # {}) =>
              \E f \in Fetches(p) :
                  /\ \A g \in Fetches(p) : g <= f
                  /\ Cardinality({s \in Pauses(p) : f < s}) = 1

\* C17 witness: a completed pass with a post fetch that failed and an alert
\* that was sent, and as many pauses as fetches.
C17_Witness ==
    \E p \in Procs :
        /\ pc[p] = "returned"
        /\ FailedEvents(p, "detail") # {}
        /\ SentEvents(p) # {}
        /\ Cardinality(Pauses(p)) = Cardinality(Fetches(p))


\* The search requests of a pass; the page a request is for is the number of
\* requests before it.
Searches(p) == EventsOf(p, {"search"})
PageOf(p, k) == Cardinality({j \in Searches(p) : j < k})
PastPages(p) == pc[p] \in {"dedupe", "loop", "fetch_post", "send_alert", "summary", "returned"}

\* C18: a pass that got through Fetching-Pages has fetched exactly `pages`
\* search pages, whatever the value of pages; the request for page 0 carries no
\* offset, the request for page p > 0 carries s = p * page_size.
C18_ExactlyPagesFetched ==
    \A p \in Procs :
        /\ PastPages(p) => Cardinality(Searches(p)) = cfg.pages
        /\ \A k \in Searches(p) :
              trace[p][k].arg.s =
                  IF PageOf(p, k) = 0 THEN <<>> ELSE <<PageOf(p, k) * cfg.page_size>>

\* C18, amended: a pass that got through Fetching-Pages has fetched `pages`
\* search pages when pages >= 1 and one page otherwise, and no pass fetches
\* more; each request carries sort=date, the query when there is one, and for
\* page p the offset s = p * page_size when that product is not 0, no offset
\* when it is 0.
C18_PagesFetched ==
    \A p \in Procs :
        LET n == IF cfg.pages >= 1 THEN cfg.pages ELSE 1
        IN /\ Cardinality(Searches(p)) <= n
           /\ PastPages(p) => Cardinality(Searches(p)) = n
           /\ \A k \in Searches(p) :
                 LET product == PageOf(p, k) * cfg.page_size
                     params == trace[p][k].arg
                 IN /\ params.sort = "date"
                    /\ params.query = (IF cfg.query = <<>> THEN <<>> ELSE <<cfg.query>>)
                    /\ params.s = (IF product = 0 THEN <<>> ELSE <<product>>)

\* C18 witness: a completed pass configured with fewer than one page: it made
\* one search request, without offset.
C18_Witness ==
    \E p \in Procs :
        /\ cfg.pages < 1
        /\ pc[p] = "returned"
        /\ Cardinality(Searches(p)) = 1
        /\ \A k \in Searches(p) : trace[p][k].arg.s = <<>>


\* Successful fetches of a post page whose extracted text is empty.
EmptyBodyEvents(p) == {k \in EventsOf(p, {"detail"}) : trace[p][k].ok /\ trace[p][k].arg = <<>>}

\* C19: the notifier is invoked for a listing only right after that listing's
\* post page was fetched successfully in the same pass, with a non-empty text in
\* which a keyword occurs, and the listing was not in the loaded Seen-Set; a
\* listing with empty text is counted as processed, stays marked seen, ends its
\* turn with the pause, and gets no match and no alert.
C19_AlertSoundness ==
    \A p \in Procs :
        /\ \A k \in EventsOf(p, {"notify"}) :
              /\ k - 1 \in MatchEvents(p)
              /\ trace[p][k - 1].id = trace[p][k].id
              /\ trace[p][k - 1].arg # <<>>
              /\ trace[p][k].id \notin FileIds(FileAtStart(p))
        /\ pc[p] = "send_alert" =>
              /\ Len(trace[p]) \in MatchEvents(p)
              /\ LastEvent(p).id = Current(p).id
        /\ matched[p] = Cardinality(MatchEvents(p))
        /\ \A k \in EmptyBodyEvents(p) :
              /\ k \notin MatchEvents(p)
              /\ trace[p][k + 1] = Sleep
              /\ trace[p][k].id \in seen[p]
              /\ trace[p][k].id \notin IdsOf(p, {"notify", "print"})
        /\ processed_new[p] >= Cardinality(EventsOf(p, {"detail"}))

\* C19 witness: a completed pass that sent an alert for one listing and found
\* the body of another one empty.
C19_Witness ==
    \E p \in Procs :
        /\ pc[p] = "returned"
        /\ SentEvents(p) # {}
        /\ EmptyBodyEvents(p) # {}

\* C20: alerts_sent <= matched <= processed_new at every point of a pass; when
\* the listing loop is through, total_found = already_seen + processed_new and
\* total_found is the number of distinct identifiers found; the count a pass
\* returns is the number of notifier calls of the pass that returned.
C20_CounterInvariant ==
    \A p \in Procs :
        /\ alerts_sent[p] <= matched[p]
        /\ matched[p] <= processed_new[p]
        /\ Saved(p) =>
              /\ total_found[p] = already_seen[p] + processed_new[p]
              /\ total_found[p] = Cardinality(UniqueIds(p))
        /\ pc[p] \in {"loop", "summary", "returned"} =>
              alerts_sent[p] = Cardinality(SentEvents(p))

\* C20 witness: a completed pass over two new listings, one of them matched and
\* alerted.
C20_Witness ==
    \E p \in Procs :
        /\ pc[p] = "returned"
        /\ total_found[p] = 2
        /\ processed_new[p] = 2
        /\ matched[p] = 1
        /\ alerts_sent[p] = 1

====
